---------------------------- MODULE Spec2Model ----------------------------
(***************************************************************************)
(* Model of the RFC2217 portal (pi/portal_v2.py): the slot supervisor, the *)
(* HTTP facade that drives it, and the life cycle of the serial_proxy      *)
(* children (pi/serial_proxy.py) it spawns.                                *)
(*                                                                         *)
(* The portal serves requests with http.server.HTTPServer, which handles   *)
(* one request at a time; the handler `h` is therefore a single record.    *)
(* A handler is split into steps at the places where it waits (settle,     *)
(* the 0.5 s start delay, the port probe, the stop-process poll) so that   *)
(* the children, which are separate OS processes, move in between.         *)
(*                                                                         *)
(* A child is a row of the OS process table: it is "starting", has its     *)
(* serial port "open", is "listening", or is a "zombie" (exited, not yet   *)
(* waited for by the portal); "gone" once reaped and "free" if the pid was *)
(* never used.  os.kill(pid, 0) succeeds for a zombie.  The portal waits   *)
(* for a child only through subprocess.Popen: proc.poll(), the finaliser   *)
(* of the Popen object, and the _cleanup() pass at the next Popen().       *)
(***************************************************************************)
EXTENDS Integers, Sequences, FiniteSets, TLC

VARIABLES tcp_port, slot, lock, proc, h, px, proxy, ble

vars == <<tcp_port, slot, lock, proc, h, px, proxy, ble>>

(* ------------------------------ bounds -------------------------------- *)

\* last_gen is capped: no start/stop is dispatched for a slot at the cap.
MaxGen == 2
\* Number of pids the process table hands out (pids are never reused).
MaxPid == 2

Pids == 1 .. MaxPid
NoPid == 0
None == "none"

\* The slot_keys of the configuration file, in file order, and one key that
\* is not configured.
SlotOrder == <<"k1", "k2">>
Slots == {SlotOrder[n] : n \in 1 .. Len(SlotOrder)}
UnknownKey == "kx"
Keys == Slots \cup {UnknownKey}
Devs == {"d1", "d2"}
Ports == {4001, 4002}

\* _load_config stores whatever tcp_port each entry carries; it does not
\* compare the ports of different entries.
Configs == {c \in [Slots -> Ports] : c["k1"] = 4001}

StartOps == {"start", "hp_add"}
StopOps == {"stop", "hp_remove"}
Ops == StartOps \cup StopOps \cup {"hp_other", "devices"}

(* ------------------------------ slots --------------------------------- *)

SlotState ==
  [running |-> FALSE, pid |-> NoPid, devnode |-> None, last_gen |-> 0,
   last_error |-> None]

\* start, success branch
CommittedSlot(s, p, d) ==
  [s EXCEPT !.running = TRUE, !.pid = p, !.devnode = d, !.last_error = None]

\* Faulty variant: the failure branch forgets the devnode
FailedSlotKeepsDevnode(s, e) ==
  [s EXCEPT !.running = FALSE, !.pid = NoPid, !.last_error = e]

\* start, failure branch
FailedSlot(s, e) ==
  [s EXCEPT !.running = FALSE, !.pid = NoPid, !.devnode = None,
            !.last_error = e]

\* start, after stopping the existing proxy
ClearedSlot(s) == [s EXCEPT !.running = FALSE, !.pid = NoPid]

\* stop, after the stop-process algorithm
StoppedSlot(s) ==
  [s EXCEPT !.running = FALSE, !.pid = NoPid, !.devnode = None,
            !.last_error = None]

\* get_devices, health refresh of a slot whose process is not alive
ReapedSlot(s) ==
  [s EXCEPT !.running = FALSE, !.pid = NoPid, !.last_error = "process_died"]

\* Faulty variant: the generation is left alone when the slot is already running
BumpGenUnlessRunning(s) ==
  [s EXCEPT !.last_gen = IF s.running THEN @ ELSE @ + 1]

\* start / stop: slot.last_gen += 1
BumpGen(s) == [s EXCEPT !.last_gen = @ + 1]

(* ---------------------------- processes ------------------------------- *)

\* A row of the process table: its state, and what the process holds: the
\* TCP port it was started for and the tty it was given.  An exited process
\* holds nothing.
FreeProc == [st |-> "free", port |-> 0, dev |-> None]
Exited(st) == [st |-> st, port |-> 0, dev |-> None]

Running(p) == proc[p].st \in {"starting", "open", "listening"}

\* os.kill(pid, 0): succeeds for every entry of the process table, a zombie
\* included.
IsProcessAlive(p) == proc[p].st \in {"starting", "open", "listening", "zombie"}

\* connect_ex to 127.0.0.1:port succeeds iff some process listens there.
IsPortListening(port) ==
  \E p \in Pids : proc[p].st = "listening" /\ proc[p].port = port

\* subprocess._cleanup() and Popen.__del__/poll: waitpid on exited children.
Reap(pr, ps) ==
  [p \in Pids |-> IF p \in ps /\ pr[p].st = "zombie"
                  THEN Exited("gone") ELSE pr[p]]

\* SIGKILL
Kill(pr, p) ==
  [pr EXCEPT ![p] = IF @.st \in {"starting", "open", "listening"}
                    THEN Exited("zombie") ELSE @]

FreePids == {p \in Pids : proc[p].st = "free"}
NextPid == CHOOSE p \in FreePids : \A q \in FreePids : p <= q

(* ---------------------------- responses ------------------------------- *)

\* The handler: where it is (pc), the request (op, key, dev), the locals of
\* _start_proxy and _stop_process (child, sp, ret, i), the result being
\* returned (http .. pid), and a record of what the request has done so far
\* (pre: the slot as the request found it; spawned, signalled).
HIdle ==
  [pc |-> "idle", op |-> None, key |-> None, dev |-> None, child |-> NoPid,
   sp |-> NoPid, ret |-> None, i |-> 0, spawned |-> FALSE,
   signalled |-> FALSE, pre |-> SlotState, http |-> 0, success |-> FALSE,
   restarted |-> FALSE, error |-> None, pid |-> NoPid]

\* do_POST: /api/start and /api/stop answer 200 on success and 400
\* otherwise; /api/hotplug sends the supervisor's result with send_json's
\* default status.
HttpStatus(op, success) ==
  IF op \in {"start", "stop"} THEN (IF success THEN 200 ELSE 400) ELSE 200

\* The supervisor has returned; do_POST / do_GET is about to send_json.
Result(hh, success, restarted, error, pid) ==
  [hh EXCEPT !.pc = "done", !.http = HttpStatus(hh.op, success),
             !.success = success, !.restarted = restarted,
             !.error = error, !.pid = pid]

(* ====================================================================== *)
(*          The proxy child: the RFC2217 codec of serial_proxy.py         *)
(* ====================================================================== *)

\* Telnet / RFC2217 constants
IAC == 255
DONT == 254
DO == 253
WONT == 252
WILL == 251
SB == 250
SE == 240
COM_PORT_OPTION == 44

\* RFC2217 subnegotiation commands
SET_BAUDRATE == 1
SET_DATASIZE == 2
SET_PARITY == 3
SET_STOPSIZE == 4
SET_CONTROL == 5
SET_LINESTATE_MASK == 10
SET_MODEMSTATE_MASK == 11

\* Byte strings are sequences over 0 .. 255; indices into them are written
\* as in the source, counting from 0, so byte i of data is data[i + 1].

\* The serial port as serial.Serial(device, baudrate=...) opens it.  Stop
\* bits are kept in tenths (10, 15, 20 for 1, 1.5, 2).
SerialDefaults ==
  [baudrate |-> 115200, bytesize |-> 8, parity |-> "N", stopbits |-> 10,
   dtr |-> TRUE, rts |-> TRUE]

\* int.from_bytes(data[:4], 'big') and n.to_bytes(4, 'big')
FromBytes4(d) == ((d[1] * 256 + d[2]) * 256 + d[3]) * 256 + d[4]
ToBytes4(n) ==
  <<(n \div 16777216) % 256, (n \div 65536) % 256, (n \div 256) % 256,
    n % 256>>

\* parity_map.get(v, 'N') and parity_rmap.get(p, 1)
ParityMap(v) ==
  CASE v = 1 -> "N" [] v = 2 -> "O" [] v = 3 -> "E" [] v = 4 -> "M"
    [] v = 5 -> "S" [] OTHER -> "N"
ParityRmap(p) ==
  CASE p = "N" -> 1 [] p = "O" -> 2 [] p = "E" -> 3 [] p = "M" -> 4
    [] p = "S" -> 5 [] OTHER -> 1

\* stopbits_map.get(v, 1); int(x); stopbits_rmap.get(x, 1) whose keys are
\* 1, 1.5 and 2.
StopbitsMap(v) == CASE v = 1 -> 10 [] v = 2 -> 20 [] v = 3 -> 15 [] OTHER -> 10
IntOf(x) == (x \div 10) * 10
StopbitsRmap(x) == CASE x = 10 -> 1 [] x = 15 -> 3 [] x = 20 -> 2 [] OTHER -> 1

\* _send_com_port_option: the messages handed to client_socket.send, none
\* when bytes([...]) raises because the response code is not a byte.
SendComPortOption(subcmd, data) ==
  IF subcmd > 255 THEN <<>>
  ELSE << <<IAC, SB, COM_PORT_OPTION, subcmd>> \o data \o <<IAC, SE>> >>

\* Faulty variant: the RTS codes are read as 9 (on) and 11 (off)
ApplyControlShifted(ser, control) ==
  CASE control = 8 -> [ser EXCEPT !.dtr = TRUE]
    [] control = 9 -> [ser EXCEPT !.rts = TRUE]
    [] control = 11 -> [ser EXCEPT !.rts = FALSE]
    [] OTHER -> ser

\* SET_CONTROL: what the control byte does to the modem lines
ApplyControl(ser, control) ==
  CASE control = 8 -> [ser EXCEPT !.dtr = TRUE]
    [] control = 9 -> [ser EXCEPT !.dtr = FALSE]
    [] control = 11 -> [ser EXCEPT !.rts = TRUE]
    [] control = 12 -> [ser EXCEPT !.rts = FALSE]
    [] OTHER -> ser

\* data if data else bytes([0])
OrZero(data) == IF data = <<>> THEN <<0>> ELSE data

\* _handle_com_port_option: the settings afterwards and the messages sent.
HandleComPortOption(ser, subcmd, data) ==
  LET resp_cmd == subcmd + 100
  IN  IF subcmd = SET_BAUDRATE /\ Len(data) >= 4
      THEN LET baudrate == FromBytes4(SubSeq(data, 1, 4))
               s == IF baudrate > 0 THEN [ser EXCEPT !.baudrate = baudrate]
                    ELSE ser
           IN  [ser |-> s,
                sent |-> SendComPortOption(resp_cmd, ToBytes4(s.baudrate))]
      ELSE IF subcmd = SET_DATASIZE /\ Len(data) >= 1
      THEN LET s == IF data[1] >= 5 /\ data[1] <= 8
                    THEN [ser EXCEPT !.bytesize = data[1]] ELSE ser
           IN  [ser |-> s, sent |-> SendComPortOption(resp_cmd, <<s.bytesize>>)]
      ELSE IF subcmd = SET_PARITY /\ Len(data) >= 1
      THEN LET s == [ser EXCEPT !.parity = ParityMap(data[1])]
           IN  [ser |-> s,
                sent |-> SendComPortOption(resp_cmd, <<ParityRmap(s.parity)>>)]
      ELSE IF subcmd = SET_STOPSIZE /\ Len(data) >= 1
      THEN LET s == [ser EXCEPT !.stopbits = StopbitsMap(data[1])]
           IN  [ser |-> s,
                sent |-> SendComPortOption(resp_cmd,
                           <<StopbitsRmap(IntOf(s.stopbits))>>)]
      ELSE IF subcmd = SET_CONTROL /\ Len(data) >= 1
      THEN [ser |-> ApplyControl(ser, data[1]),
            sent |-> SendComPortOption(resp_cmd, <<data[1]>>)]
      ELSE [ser |-> ser, sent |-> SendComPortOption(resp_cmd, OrZero(data))]

\* bytes.find(bytes([IAC, SE]), start): the index of the first IAC SE at or
\* after start, -1 when there is none.
FindIacSe(data, start) ==
  LET hits == {j \in start .. Len(data) - 2 :
                 data[j + 1] = IAC /\ data[j + 2] = SE}
  IN  IF hits = {} THEN -1
      ELSE CHOOSE j \in hits : \A k \in hits : j <= k

\* The parser's account of one read: the application data (out), the
\* serial settings, the messages sent to the client, and the calls of
\* _handle_com_port_option (evs), each in order; and the order in which
\* data bytes were taken up ("d") and messages sent ("r") (log).
ParseStart(ser) ==
  [out |-> <<>>, ser |-> ser, sent |-> <<>>, evs |-> <<>>, log |-> <<>>]

\* output.append(b); the log entry keeps the settings the serial port has
\* at this point of the parse
Output(st, b) ==
  [st EXCEPT !.out = Append(@, b),
             !.log = Append(@, [k |-> "d", v |-> <<b>>, ser |-> st.ser])]

\* client_socket.send(m) for each message of ms
Send(st, ms) ==
  [st EXCEPT !.sent = @ \o ms,
             !.log = @ \o [j \in 1 .. Len(ms) |->
                              [k |-> "r", v |-> ms[j], ser |-> st.ser]]]

\* Faulty variant: an escaped IAC is passed on as it came, both bytes
OnEscapedIacRaw(st) == Output(Output(st, IAC), IAC)

\* handle_rfc2217, IAC IAC: one 0xFF of data
OnEscapedIac(st) == Output(st, IAC)

\* handle_rfc2217, a terminated COM-PORT subnegotiation
OnComPortOption(st, subcmd, subdata) ==
  LET r == HandleComPortOption(st.ser, subcmd, subdata)
  IN  Send([st EXCEPT !.ser = r.ser,
                      !.evs = Append(@, [subcmd |-> subcmd, data |-> subdata])],
           r.sent)

\* handle_rfc2217, IAC DO/DONT/WILL/WONT opt, and _send_telnet
OnNegotiation(st, cmd, opt) ==
  IF cmd = DO /\ opt = COM_PORT_OPTION
  THEN Send(st, << <<IAC, WILL, COM_PORT_OPTION>> >>)
  ELSE IF cmd = WILL /\ opt = COM_PORT_OPTION
  THEN Send(st, << <<IAC, DO, COM_PORT_OPTION>> >>)
  ELSE st

\* handle_rfc2217: the while loop, entered at index i.
RECURSIVE Rfc2217Loop(_, _, _)
Rfc2217Loop(data, i, st) ==
  IF i >= Len(data) THEN st
  ELSE IF data[i + 1] = IAC /\ i + 1 < Len(data)
  THEN LET cmd == data[i + 2]
       IN  IF cmd = IAC
           THEN Rfc2217Loop(data, i + 2, OnEscapedIac(st))
           ELSE IF cmd = SB /\ i + 2 < Len(data)
           THEN LET se_idx == IF data[i + 3] = COM_PORT_OPTION
                              THEN FindIacSe(data, i + 3) ELSE -1
                IN  IF se_idx # -1
                    THEN LET subcmd == IF i + 3 < se_idx THEN data[i + 4]
                                       ELSE 0
                             subdata == SubSeq(data, i + 5, se_idx)
                         IN  Rfc2217Loop(data, se_idx + 2,
                                         OnComPortOption(st, subcmd, subdata))
                    ELSE Rfc2217Loop(data, i + 2, st)
           ELSE IF cmd \in {DO, DONT, WILL, WONT} /\ i + 2 < Len(data)
           THEN Rfc2217Loop(data, i + 3,
                            OnNegotiation(st, cmd, data[i + 3]))
           ELSE Rfc2217Loop(data, i + 2, st)
  ELSE Rfc2217Loop(data, i + 1, Output(st, data[i + 1]))

HandleRfc2217(ser, data) == Rfc2217Loop(data, 0, ParseStart(ser))

(* ------------------------ the proxy's session ------------------------- *)

\* Number of frames the client puts on the connection
MaxTokens == 3
\* Number of direct calls of the subnegotiation handler
MaxCalls == 2

\* The proxy and its one client: the serial port's settings (ser), the
\* bytes written to the serial port (wr), the messages sent to the client
\* (sent), the subnegotiations handed to _handle_com_port_option (evs),
\* the order of the codec's steps in the latest read (log),
\* what the client has put on the connection (toks) and what of it has not
\* been received yet (net), how far the delivery is (phase) and the number
\* of reads or handler calls made (n).
PxInit ==
  [ser |-> SerialDefaults, wr |-> <<>>, sent |-> <<>>, evs |-> <<>>,
   log |-> <<>>, toks |-> <<>>, net |-> <<>>, phase |-> "compose", n |-> 0]

\* What an RFC2217 client does to data bytes and to subnegotiation
\* payloads before sending them: every 0xFF is doubled.
RECURSIVE Escape(_)
Escape(s) ==
  IF s = <<>> THEN <<>>
  ELSE (IF Head(s) = IAC THEN <<IAC, IAC>> ELSE <<Head(s)>>)
       \o Escape(Tail(s))

\* The frames a client sends: a data byte, a COM-PORT subnegotiation
\* (a: subcommand, body: payload), a subnegotiation of another option
\* (a: the option), an option negotiation (a: DO/WILL/..., body: option).
DataBytes == {65, SE, SB, IAC}
SubFrames ==
  {<<SET_CONTROL, <<8>> >>, <<SET_CONTROL, <<9>> >>,
   <<SET_BAUDRATE, <<0, IAC, SE, 0>> >>,
   <<SET_LINESTATE_MASK, <<IAC>> >>}
ClientTokens ==
  {[kind |-> "data", a |-> 0, body |-> <<b>>] : b \in DataBytes}
  \cup {[kind |-> "sub", a |-> f[1], body |-> f[2]] : f \in SubFrames}
  \cup {[kind |-> "osub", a |-> 1, body |-> <<65>>]}
  \cup {[kind |-> "neg", a |-> c, body |-> <<COM_PORT_OPTION>>] :
          c \in {DO, WILL}}

\* The bytes of a frame on the wire
Wire(tok) ==
  CASE tok.kind = "data" -> Escape(tok.body)
    [] tok.kind = "sub" ->
         <<IAC, SB, COM_PORT_OPTION, tok.a>> \o Escape(tok.body)
           \o <<IAC, SE>>
    [] tok.kind = "osub" ->
         <<IAC, SB, tok.a>> \o Escape(tok.body) \o <<IAC, SE>>
    [] tok.kind = "neg" -> <<IAC, tok.a>> \o tok.body

\* The client sends one more frame.
ClientSend(tok) ==
  /\ px.phase = "compose" /\ Len(px.toks) < MaxTokens
  /\ px' = [px EXCEPT !.toks = Append(@, tok), !.net = @ \o Wire(tok)]
  /\ UNCHANGED <<tcp_port, slot, lock, proc, h, proxy, ble>>

\* run, client readable: recv returns the n bytes that have arrived, the
\* codec parses them, and what it returns is written to the serial port.
\* The stream arrives whole, or in two parts.
ClientRead(n) ==
  /\ n \in 1 .. Len(px.net)
  /\ \/ px.phase = "compose"
     \/ px.phase = "half" /\ n = Len(px.net)
  /\ LET r == HandleRfc2217(px.ser, SubSeq(px.net, 1, n))
     IN  px' = [px EXCEPT !.net = SubSeq(@, n + 1, Len(@)),
                          !.ser = r.ser, !.wr = @ \o r.out,
                          !.sent = @ \o r.sent, !.evs = @ \o r.evs,
                          !.log = r.log,
                          !.phase = IF n = Len(px.net) THEN "done"
                                    ELSE "half",
                          !.n = @ + 1]
  /\ UNCHANGED <<tcp_port, slot, lock, proc, h, proxy, ble>>

\* The subnegotiations the handler is called with directly.  A payload
\* byte 0xFF reaches the handler as the client sent it, doubled.
OptSubcmds ==
  {SET_BAUDRATE, SET_DATASIZE, SET_PARITY, SET_STOPSIZE, SET_CONTROL,
   SET_LINESTATE_MASK, SET_MODEMSTATE_MASK, 0, 156}
OptPayloads ==
  {<<>>, <<0, 0>>, <<0, 0, 0, 0>>, <<0, 0, 37, 128>>, <<0, 0, 225, 0>>,
   <<0, 0, 0, IAC>>, <<0, 0, 0, IAC, IAC>>, <<IAC, IAC>>}
  \cup {<<v>> : v \in 0 .. 13}

\* One call of _handle_com_port_option(subcmd, data); sent and evs keep
\* the messages and the arguments of the latest call only.
HandleOption(subcmd, data) ==
  /\ px.n < MaxCalls
  /\ LET r == HandleComPortOption(px.ser, subcmd, data)
     IN  px' = [px EXCEPT !.ser = r.ser, !.sent = r.sent,
                          !.evs = <<[subcmd |-> subcmd, data |-> data]>>,
                          !.n = @ + 1]
  /\ UNCHANGED <<tcp_port, slot, lock, proc, h, proxy, ble>>

(* ------------------------ the proxy's main loop ----------------------- *)

\* The connections made to the proxy's port: two clients, and the connect
\* of the portal's _is_port_listening.
Clients == {"A", "B"}
Probe == "P"
Conns == Clients \cup {Probe}

\* What one read of the serial device returns
SerialData == {<<65>>, <<IAC>>, <<65, IAC>>}

\* RFC2217Proxy in run(), after open_serial and start_server: the object's
\* fields (running, serial, server, client and the logger's file), the
\* proxy's end of every connection (sock: none, pending in the listen
\* queue, open, closed) and the peer's end (peer), where the main thread is
\* (pc: in the loop, in run's finally clause, exited), whether a signal
\* was delivered, the log lines of the latest step (logs), the latest
\* forwarding of serial data (fwd: the data read, the socket it was sent
\* on and the bytes sent), the client the latest accept found in place
\* (pre), and whether a closed resource was used (misuse).
ProxyStart ==
  [running |-> TRUE, serial |-> "open", server |-> "open",
   logfile |-> "open", client |-> None,
   sock |-> [c \in Conns |-> "none"], peer |-> [c \in Conns |-> "none"],
   pc |-> "loop", signalled |-> FALSE, logs |-> <<>>, pre |-> None,
   fwd |-> [to |-> None, data |-> <<>>, sent |-> <<>>], misuse |-> FALSE]

\* socket.close() on the proxy's end of connection c (c may be None)
CloseSock(sock, c) == [x \in Conns |-> IF x = c THEN "closed" ELSE sock[x]]

\* Faulty variant: the previous client's socket is left open
PreemptKeepsOpen(pr) == [pr EXCEPT !.logs = <<>>]

\* run, listener readable: "if self.client_socket: close it and log"
Preempt(pr) ==
  IF pr.client # None
  THEN [pr EXCEPT !.sock = CloseSock(@, pr.client),
                  !.logs = <<"Previous client disconnected">>]
  ELSE [pr EXCEPT !.logs = <<>>]

\* RFC2217Proxy.stop with the log file open: log, close the client socket
\* (the field keeps the socket), the listener, the serial port, the logger.
StopProxy(pr) ==
  [pr EXCEPT !.running = FALSE, !.sock = CloseSock(@, pr.client),
             !.server = "closed", !.serial = "closed",
             !.logfile = "closed",
             !.logs = <<"Shutting down", "Closed", "Log closed">>]

\* A client connects: the kernel completes the handshake and queues the
\* connection on the listening socket.
ClientConnect(c) ==
  /\ c \in Clients
  /\ proxy.server = "open" /\ proxy.sock[c] = "none"
  /\ proxy' = [proxy EXCEPT !.sock[c] = "pending", !.peer[c] = "open"]
  /\ UNCHANGED <<tcp_port, slot, lock, proc, h, px, ble>>

\* Portal._is_port_listening: connect_ex to the port, then close.
ProbeConnect ==
  /\ proxy.server = "open" /\ proxy.sock[Probe] = "none"
  /\ proxy' = [proxy EXCEPT !.sock[Probe] = "pending",
                            !.peer[Probe] = "closed"]
  /\ UNCHANGED <<tcp_port, slot, lock, proc, h, px, ble>>

\* The peer closes its end.
PeerClose(c) ==
  /\ proxy.peer[c] = "open"
  /\ proxy' = [proxy EXCEPT !.peer[c] = "closed"]
  /\ UNCHANGED <<tcp_port, slot, lock, proc, h, px, ble>>

\* select.select(read_list, ...) with the client socket in the list: a
\* closed socket has fileno() -1, select raises ValueError, and the loop
\* takes `continue` without serving anything.
SelectOk(pr) ==
  IF pr.client = None THEN TRUE ELSE pr.sock[pr.client] = "open"

\* run, listener readable: close the previous client, accept connection c.
\* When accept raises (the connection was aborted, no descriptor left) the
\* bare except drops the exception and client_socket keeps the socket that
\* was just closed.
Accept(c, ok) ==
  /\ proxy.pc = "loop" /\ SelectOk(proxy) /\ proxy.sock[c] = "pending"
  /\ LET pr == Preempt(proxy)
     IN  proxy' = IF ok
                  THEN [pr EXCEPT !.sock[c] = "open", !.client = c,
                                  !.pre = proxy.client,
                                  !.logs = @ \o <<"Client connected">>]
                  ELSE [pr EXCEPT !.sock[c] = "closed",
                                  !.pre = proxy.client]
  /\ UNCHANGED <<tcp_port, slot, lock, proc, h, px, ble>>

\* What recv on the client socket, and the serial write that follows it,
\* can come to.
RecvOutcomes == {"data", "write_error", "eof", "reset", "recv_error"}

\* run, client readable.  recv returns data, which is parsed and written to
\* the serial port; or it returns nothing, or raises ConnectionResetError
\* or BrokenPipeError, and the session is closed.  Any other exception of
\* recv (ETIMEDOUT, EHOSTUNREACH, ...) and every exception of serial.write
\* (write timeout, device gone) passes the except clauses and leaves the
\* loop.
ClientReadable(outcome) ==
  /\ proxy.pc = "loop" /\ SelectOk(proxy) /\ proxy.client # None
  /\ outcome = "eof" => proxy.peer[proxy.client] = "closed"
  /\ proxy' =
       CASE outcome = "data" -> [proxy EXCEPT !.logs = <<"TX">>]
         [] outcome = "eof" ->
              [proxy EXCEPT !.sock = CloseSock(@, proxy.client),
                            !.client = None,
                            !.logs = <<"Client disconnected">>]
         [] outcome = "reset" ->
              [proxy EXCEPT !.sock = CloseSock(@, proxy.client),
                            !.client = None,
                            !.logs = <<"Client connection reset">>]
         [] outcome \in {"write_error", "recv_error"} ->
              [proxy EXCEPT !.pc = "finally", !.logs = <<>>]
  /\ UNCHANGED <<tcp_port, slot, lock, proc, h, px, ble>>

\* run, serial readable: read what is waiting, log it, and send it to the
\* client if there is one; an exception of send is dropped.
SerialRead(d, sendok) ==
  /\ proxy.pc = "loop" /\ SelectOk(proxy) /\ proxy.serial = "open"
  /\ proxy.client = None => sendok
  /\ proxy' = [proxy EXCEPT
                 !.logs = <<"RX">>,
                 !.fwd = [to |-> proxy.client, data |-> d,
                          sent |-> IF proxy.client # None /\ sendok
                                   THEN d ELSE <<>>]]
  /\ UNCHANGED <<tcp_port, slot, lock, proc, h, px, ble>>

\* SIGTERM or SIGINT while the main thread is in the loop: signal_handler
\* calls proxy.stop() and then sys.exit(0), whose SystemExit unwinds run.
Signal ==
  /\ proxy.pc = "loop"
  /\ proxy' = [StopProxy(proxy) EXCEPT !.signalled = TRUE, !.pc = "finally"]
  /\ UNCHANGED <<tcp_port, slot, lock, proc, h, px, ble>>

\* run's finally clause: self.stop().  Its first statement after
\* running = False is logger.log, which writes to the log file; on a closed
\* file that raises ValueError and the process ends there.
Finally ==
  /\ proxy.pc = "finally"
  /\ proxy' = IF proxy.logfile = "closed"
              THEN [proxy EXCEPT !.running = FALSE, !.misuse = TRUE,
                                 !.pc = "exited", !.logs = <<>>]
              ELSE [StopProxy(proxy) EXCEPT !.pc = "exited"]
  /\ UNCHANGED <<tcp_port, slot, lock, proc, h, px, ble>>

(* ====================================================================== *)
(*                   The BLE controller, ble_controller.py                *)
(* ====================================================================== *)

\* Number of BleakClient objects the connect calls create
MaxBleClients == 2

\* The threads that call the module's public functions, and the clients.
\* Client 0 stands for None.
BleThreads == {"t1", "t2"}
BleIds == 1 .. MaxBleClients

\* The module globals _state, _client and _address; for each calling
\* thread where it is in its call (pc) and its local `client` (c); the
\* link of every BleakClient (new, up, down); and the clients whose
\* disconnected_callback the event loop has still to run (cb).  Each
\* `with _lock:` block has no blocking call inside and is one step.
BleInit ==
  [state |-> "idle", client |-> 0, address |-> None,
   th |-> [t \in BleThreads |-> [pc |-> "idle", c |-> 0]],
   link |-> [c \in BleIds |-> "new"], cb |-> {}]

BleNew == {c \in BleIds : ble.link[c] = "new"}

\* The globals as _on_disconnect and disconnect leave them
BleCleared(b) == [b EXCEPT !.state = "idle", !.client = 0, !.address = None]

\* scan, first locked block: refuse while scanning, else _state = "scanning"
BleScanBegin(t) ==
  /\ ble.th[t].pc = "idle" /\ ble.state # "scanning"
  /\ ble' = [ble EXCEPT !.state = "scanning", !.th[t].pc = "scan"]
  /\ UNCHANGED <<tcp_port, slot, lock, proc, h, px, proxy>>

\* scan: discover returns or raises, then the finally block
BleScanEnd(t) ==
  /\ ble.th[t].pc = "scan"
  /\ ble' = [ble EXCEPT !.state = IF @ = "scanning" THEN "idle" ELSE @,
                        !.th[t].pc = "idle"]
  /\ UNCHANGED <<tcp_port, slot, lock, proc, h, px, proxy>>

\* connect, first locked block: refuse when connected
BleConnectBegin(t) ==
  /\ ble.th[t].pc = "idle"
  /\ ~(ble.state = "connected" /\ ble.address # None)
  /\ BleNew # {}
  /\ ble' = [ble EXCEPT !.th[t].pc = "connecting"]
  /\ UNCHANGED <<tcp_port, slot, lock, proc, h, px, proxy>>

\* connect: BleakClient(address, ...) and client.connect(), which succeeds
\* or raises; on an exception connect returns its error.
BleConnectLink(t, ok) ==
  /\ ble.th[t].pc = "connecting" /\ BleNew # {}
  /\ LET c == CHOOSE x \in BleNew : \A y \in BleNew : x <= y
     IN  ble' = IF ok
                THEN [ble EXCEPT !.link[c] = "up",
                                 !.th[t] = [pc |-> "commit", c |-> c]]
                ELSE [ble EXCEPT !.link[c] = "down", !.th[t].pc = "idle"]
  /\ UNCHANGED <<tcp_port, slot, lock, proc, h, px, proxy>>

\* connect, second locked block: publish the client
BleConnectCommit(t) ==
  /\ ble.th[t].pc = "commit"
  /\ ble' = [ble EXCEPT !.client = ble.th[t].c, !.address = "addr",
                        !.state = "connected",
                        !.th[t] = [pc |-> "idle", c |-> 0]]
  /\ UNCHANGED <<tcp_port, slot, lock, proc, h, px, proxy>>

\* disconnect, first locked block: take _client; with none, _state = "idle"
BleDisconnectBegin(t) ==
  /\ ble.th[t].pc = "idle"
  /\ ble' = IF ble.client = 0
            THEN [ble EXCEPT !.state = "idle"]
            ELSE [ble EXCEPT !.th[t] = [pc |-> "disc", c |-> ble.client]]
  /\ UNCHANGED <<tcp_port, slot, lock, proc, h, px, proxy>>

\* disconnect: client.disconnect() if it is connected (exceptions are
\* dropped), then the second locked block clears the globals.
BleDisconnectEnd(t) ==
  /\ ble.th[t].pc = "disc"
  /\ ble' = [BleCleared(ble) EXCEPT
               !.link[ble.th[t].c] = "down",
               !.th[t] = [pc |-> "idle", c |-> 0]]
  /\ UNCHANGED <<tcp_port, slot, lock, proc, h, px, proxy>>

\* write, locked block: take _client, refuse unless connected
BleWriteBegin(t) ==
  /\ ble.th[t].pc = "idle"
  /\ ble.client # 0 /\ ble.state = "connected"
  /\ ble' = [ble EXCEPT !.th[t] = [pc |-> "write", c |-> ble.client]]
  /\ UNCHANGED <<tcp_port, slot, lock, proc, h, px, proxy>>

\* write: write_gatt_char returns or raises
BleWriteEnd(t) ==
  /\ ble.th[t].pc = "write"
  /\ ble' = [ble EXCEPT !.th[t] = [pc |-> "idle", c |-> 0]]
  /\ UNCHANGED <<tcp_port, slot, lock, proc, h, px, proxy>>

\* The peripheral goes away: the link is down and bleak schedules the
\* disconnected_callback on the event loop.
BleLinkDrop(c) ==
  /\ ble.link[c] = "up"
  /\ ble' = [ble EXCEPT !.link[c] = "down", !.cb = @ \cup {c}]
  /\ UNCHANGED <<tcp_port, slot, lock, proc, h, px, proxy>>

\* _on_disconnect(client): clears the globals, whichever client it is for
BleOnDisconnect(c) ==
  /\ c \in ble.cb
  /\ ble' = [BleCleared(ble) EXCEPT !.cb = @ \ {c}]
  /\ UNCHANGED <<tcp_port, slot, lock, proc, h, px, proxy>>

(* ------------------------------- Init --------------------------------- *)

Init ==
  /\ tcp_port \in Configs
  /\ slot = [k \in Slots |-> SlotState]
  /\ lock = [k \in Slots |-> FALSE]
  /\ proc = [p \in Pids |-> FreeProc]
  /\ h = HIdle
  /\ px = PxInit
  /\ proxy = ProxyStart
  /\ ble = BleInit

(* ------------------------- the HTTP facade ---------------------------- *)

\* serve_forever takes the next request only when the previous one has been
\* answered.  do_POST / do_GET route it; start and stop refuse a slot_key
\* that is not configured before touching any slot.
Dispatch(op, k, d) ==
  /\ h.pc = "idle"
  /\ op \in StartOps => d \in Devs
  /\ op \notin StartOps => d = None
  /\ op = "devices" => k = None
  /\ op # "devices" => k \in Keys
  /\ (op \in StartOps \cup StopOps /\ k \in Slots) =>
        slot[k].last_gen < MaxGen
  /\ (op \in StartOps /\ k \in Slots) => FreePids # {}
  /\ LET hh == [HIdle EXCEPT !.op = op, !.key = k, !.dev = d,
                             !.pre = IF k \in Slots THEN slot[k]
                                     ELSE SlotState]
     IN  h' = IF op = "hp_other"
              THEN [Result(hh, FALSE, FALSE, "unknown_action", NoPid)
                      EXCEPT !.http = 400]
              ELSE IF op = "devices"
              THEN [hh EXCEPT !.pc = "gd", !.i = 1]
              ELSE IF k \notin Slots
              THEN Result(hh, FALSE, FALSE, "unknown_slot", NoPid)
              ELSE [hh EXCEPT !.pc = "acquire"]
  /\ UNCHANGED <<ble, proxy, px, tcp_port, slot, lock, proc>>

\* send_json: the response leaves and the server loop is free again.  An
\* exception that escapes the supervisor ends the request in
\* socketserver's handle_error instead, with no response.
SendJson ==
  /\ h.pc \in {"done", "raised"}
  /\ h' = HIdle
  /\ UNCHANGED <<ble, proxy, px, tcp_port, slot, lock, proc>>

(* --------------------------- start / stop ----------------------------- *)

\* with slot.lock:
Acquire ==
  /\ h.pc = "acquire"
  /\ ~lock[h.key]
  /\ lock' = [lock EXCEPT ![h.key] = TRUE]
  /\ h' = [h EXCEPT !.pc = "locked"]
  /\ UNCHANGED <<ble, proxy, px, tcp_port, slot, proc>>

\* Faulty variant: the health test probes the wrong port number
HealthyWrongPort(s, k, d) ==
  /\ s.running /\ s.pid # NoPid /\ s.devnode = d
  /\ IsProcessAlive(s.pid) /\ IsPortListening(s.pid)

\* start: "already running with same devnode and healthy"
Healthy(s, k, d) ==
  /\ s.running /\ s.pid # NoPid /\ s.devnode = d
  /\ IsProcessAlive(s.pid) /\ IsPortListening(tcp_port[k])

\* Faulty variant: the existing proxy is stopped without looking at the slot
MustStopExistingAlways(s) == TRUE

\* start: "stop existing proxy if running"
MustStopExisting(s) == s.running /\ s.pid # NoPid

\* os.kill(pid, sig) with pid None raises TypeError, which the
\* `except OSError` clauses of _stop_process and _is_process_alive let pass.
KillRaises(p) == p = NoPid

\* start: generation bump, the no-op test, and the decision to stop the
\* existing proxy.
StartBegin ==
  /\ h.pc = "locked" /\ h.op \in StartOps
  /\ LET k == h.key
         s == BumpGen(slot[k])
     IN  /\ slot' = [slot EXCEPT ![k] = s]
         /\ IF Healthy(s, k, h.dev)
            THEN /\ lock' = [lock EXCEPT ![k] = FALSE]
                 /\ h' = Result(h, TRUE, FALSE, None, NoPid)
            ELSE /\ h' = IF MustStopExisting(s)
                         THEN [h EXCEPT !.pc = "sp_term", !.sp = s.pid,
                                        !.ret = "clear_old"]
                         ELSE [h EXCEPT !.pc = "start_proxy"]
                 /\ UNCHANGED lock
  /\ UNCHANGED <<ble, proxy, px, tcp_port, proc>>

\* _stop_process: os.kill(pid, SIGTERM).  A missing process raises OSError
\* and the function returns at once; any other exception leaves the
\* with-block of the caller, which releases the slot lock.  The child reacts to SIGTERM on its
\* own time (ChildExit), or not at all.
StopProcessTerm ==
  /\ h.pc = "sp_term"
  /\ IF KillRaises(h.sp)
     THEN /\ h' = [h EXCEPT !.pc = "raised"]
          /\ lock' = [lock EXCEPT ![h.key] = FALSE]
     ELSE /\ h' = IF IsProcessAlive(h.sp)
                  THEN [h EXCEPT !.pc = "sp_wait", !.signalled = TRUE]
                  ELSE [h EXCEPT !.pc = h.ret]
          /\ UNCHANGED lock
  /\ UNCHANGED <<ble, proxy, px, tcp_port, slot, proc>>

\* _stop_process: the poll loop ends early only when os.kill(pid, 0) fails;
\* at the deadline SIGKILL is sent, and the result of the last liveness test
\* is returned to callers that ignore it.
StopProcessKill ==
  /\ h.pc = "sp_wait"
  /\ proc' = IF IsProcessAlive(h.sp) THEN Kill(proc, h.sp) ELSE proc
  /\ h' = [h EXCEPT !.pc = h.ret]
  /\ UNCHANGED <<ble, proxy, px, tcp_port, slot, lock>>

\* start: failure branch, and the return out of the with-block.
FailStart(k, s, e, pr) ==
  /\ slot' = [slot EXCEPT ![k] = FailedSlot(s, e)]
  /\ lock' = [lock EXCEPT ![k] = FALSE]
  /\ proc' = pr
  /\ h' = Result(h, FALSE, FALSE, e, NoPid)

\* start after the existing proxy was stopped (or with none to stop), and
\* _start_proxy up to Popen: executable lookup, settle check, spawn.  The
\* file system and the device are the environment's, so each test may go
\* either way.  Popen first reaps every exited child (_cleanup).
StartProxy ==
  /\ h.pc \in {"clear_old", "start_proxy"}
  /\ LET k == h.key
         s == IF h.pc = "clear_old" THEN ClearedSlot(slot[k]) ELSE slot[k]
     IN  \/ \E e \in {"no_proxy_executable", "device_not_ready",
                      "spawn_error"} :
               FailStart(k, s, e, IF e = "spawn_error"
                                  THEN Reap(proc, Pids) ELSE proc)
         \/ /\ FreePids # {}
            /\ LET p == NextPid IN
               /\ proc' = [Reap(proc, Pids) EXCEPT
                             ![p] = [st |-> "starting",
                                     port |-> tcp_port[k], dev |-> h.dev]]
               /\ h' = [h EXCEPT !.pc = "poll", !.child = p,
                                 !.spawned = TRUE]
            /\ slot' = [slot EXCEPT ![k] = s]
            /\ UNCHANGED lock
  /\ UNCHANGED <<ble, proxy, px, tcp_port>>

\* _start_proxy: sleep 0.5 s, then proc.poll().
StartPoll ==
  /\ h.pc = "poll"
  /\ IF proc[h.child].st = "zombie"
     THEN FailStart(h.key, slot[h.key], "child_exited_early",
                    Reap(proc, {h.child}))
     ELSE /\ h' = [h EXCEPT !.pc = "probe"]
          /\ UNCHANGED <<slot, lock, proc>>
  /\ UNCHANGED <<ble, proxy, px, tcp_port>>

\* _start_proxy: the port probe.  A successful connect returns the child's
\* pid and start commits it; twenty failed connects lead to _stop_process.
\* Leaving _start_proxy finalises the Popen object, which reaps the child
\* if it has exited.
StartProbe ==
  /\ h.pc = "probe"
  /\ LET k == h.key IN
     IF IsPortListening(tcp_port[k])
     THEN /\ slot' = [slot EXCEPT ![k] = CommittedSlot(slot[k], h.child,
                                                       h.dev)]
          /\ lock' = [lock EXCEPT ![k] = FALSE]
          /\ proc' = Reap(proc, {h.child})
          /\ h' = Result(h, TRUE, TRUE, None, h.child)
     ELSE /\ h' = [h EXCEPT !.pc = "sp_term", !.sp = h.child,
                            !.ret = "not_listening"]
          /\ UNCHANGED <<slot, lock, proc>>
  /\ UNCHANGED <<ble, proxy, px, tcp_port>>

\* _start_proxy after the forced stop: "port not listening".
StartNotListening ==
  /\ h.pc = "not_listening"
  /\ FailStart(h.key, slot[h.key], "port_not_listening",
               Reap(proc, {h.child}))
  /\ UNCHANGED <<ble, proxy, px, tcp_port>>

\* stop: "if not running, nothing to do"
AlreadyStopped(s) == ~s.running \/ s.pid = NoPid

\* stop: generation bump and the "already stopped" test.
StopBegin ==
  /\ h.pc = "locked" /\ h.op \in StopOps
  /\ LET k == h.key
         s == BumpGen(slot[k])
     IN  /\ slot' = [slot EXCEPT ![k] = s]
         /\ IF AlreadyStopped(s)
            THEN /\ lock' = [lock EXCEPT ![k] = FALSE]
                 /\ h' = Result(h, TRUE, FALSE, None, NoPid)
            ELSE /\ h' = [h EXCEPT !.pc = "sp_term", !.sp = s.pid,
                                   !.ret = "stop_done"]
                 /\ UNCHANGED lock
  /\ UNCHANGED <<ble, proxy, px, tcp_port, proc>>

\* stop: clear the slot and return.
StopFinish ==
  /\ h.pc = "stop_done"
  /\ slot' = [slot EXCEPT ![h.key] = StoppedSlot(slot[h.key])]
  /\ lock' = [lock EXCEPT ![h.key] = FALSE]
  /\ h' = Result(h, TRUE, FALSE, None, NoPid)
  /\ UNCHANGED <<ble, proxy, px, tcp_port, proc>>

(* ---------------------------- get_devices ----------------------------- *)

\* get_devices: "refresh health status" applies to a slot recorded running
\* whose process os.kill(pid, 0) no longer finds.
NeedsReap(s) == s.running /\ s.pid # NoPid /\ ~IsProcessAlive(s.pid)

\* One iteration of the loop over self.slots.values(): refresh the health
\* of the slot, then snapshot it.  The slot's lock is not taken.
GetDevicesStep ==
  /\ h.pc = "gd"
  /\ LET k == SlotOrder[h.i]
         s == slot[k]
     IN  slot' = [slot EXCEPT ![k] = IF NeedsReap(s) THEN ReapedSlot(s)
                                     ELSE s]
  /\ h' = IF h.i = Len(SlotOrder)
          THEN Result(h, TRUE, FALSE, None, NoPid)
          ELSE [h EXCEPT !.i = @ + 1]
  /\ UNCHANGED <<ble, proxy, px, tcp_port, lock, proc>>

(* --------------------------- the children ----------------------------- *)

\* RFC2217Proxy.open_serial: serial.Serial(device, ...) opens the tty; it
\* asks for no exclusive access.
ChildOpenSerial(p) ==
  /\ proc[p].st = "starting"
  /\ proc' = [proc EXCEPT ![p].st = "open"]
  /\ UNCHANGED <<ble, proxy, px, tcp_port, slot, lock, h>>

\* RFC2217Proxy.start_server: bind and listen.  bind raises when another
\* process listens on the port, and the exception ends the child.
ChildListen(p) ==
  /\ proc[p].st = "open"
  /\ proc' = [proc EXCEPT ![p] = IF IsPortListening(proc[p].port)
                                 THEN Exited("zombie")
                                 ELSE [@ EXCEPT !.st = "listening"]]
  /\ UNCHANGED <<ble, proxy, px, tcp_port, slot, lock, h>>

\* The child ends: its SIGTERM handler ran, the serial open failed, it was
\* killed from outside, it crashed.
ChildExit(p) ==
  /\ Running(p)
  /\ proc' = [proc EXCEPT ![p] = Exited("zombie")]
  /\ UNCHANGED <<ble, proxy, px, tcp_port, slot, lock, h>>

(* ------------------------------- Next --------------------------------- *)

Next ==
  \/ \E op \in Ops, k \in Keys \cup {None}, d \in Devs \cup {None} :
        Dispatch(op, k, d)
  \/ SendJson
  \/ Acquire
  \/ StartBegin
  \/ StopProcessTerm
  \/ StopProcessKill
  \/ StartProxy
  \/ StartPoll
  \/ StartProbe
  \/ StartNotListening
  \/ StopBegin
  \/ StopFinish
  \/ GetDevicesStep
  \/ \E p \in Pids : ChildOpenSerial(p)
  \/ \E p \in Pids : ChildListen(p)
  \/ \E p \in Pids : ChildExit(p)

Spec == Init /\ [][Next]_vars

\* The proxy with one client, the portal idle.
ProxyInit == Init /\ tcp_port = [k \in Slots |-> 4001]

NextCodec ==
  \/ \E tok \in ClientTokens : ClientSend(tok)
  \/ \E n \in 1 .. Len(px.net) : ClientRead(n)

SpecCodec == ProxyInit /\ [][NextCodec]_vars

NextOption ==
  \E subcmd \in OptSubcmds, data \in OptPayloads : HandleOption(subcmd, data)

SpecOption == ProxyInit /\ [][NextOption]_vars

NextProxy ==
  \/ \E c \in Clients : ClientConnect(c)
  \/ ProbeConnect
  \/ \E c \in Conns : PeerClose(c)
  \/ \E c \in Conns, ok \in BOOLEAN : Accept(c, ok)
  \/ \E outcome \in RecvOutcomes : ClientReadable(outcome)
  \/ \E d \in SerialData, sendok \in BOOLEAN : SerialRead(d, sendok)
  \/ Signal
  \/ Finally

SpecProxy == ProxyInit /\ [][NextProxy]_vars

NextBle ==
  \/ \E t \in BleThreads : BleScanBegin(t)
  \/ \E t \in BleThreads : BleScanEnd(t)
  \/ \E t \in BleThreads : BleConnectBegin(t)
  \/ \E t \in BleThreads, ok \in BOOLEAN : BleConnectLink(t, ok)
  \/ \E t \in BleThreads : BleConnectCommit(t)
  \/ \E t \in BleThreads : BleDisconnectBegin(t)
  \/ \E t \in BleThreads : BleDisconnectEnd(t)
  \/ \E t \in BleThreads : BleWriteBegin(t)
  \/ \E t \in BleThreads : BleWriteEnd(t)
  \/ \E c \in BleIds : BleLinkDrop(c)
  \/ \E c \in BleIds : BleOnDisconnect(c)

SpecBle == ProxyInit /\ [][NextBle]_vars

\* The main thread, once an exception unwinds run, goes on to the finally
\* clause.
SpecProxyFair == SpecProxy /\ WF_vars(Finally)

(* ------------------------------ typing -------------------------------- *)

TypeOK ==
  /\ tcp_port \in [Slots -> Ports]
  /\ \A k \in Slots :
       /\ slot[k].running \in BOOLEAN
       /\ slot[k].pid \in Pids \cup {NoPid}
       /\ slot[k].devnode \in Devs \cup {None}
       /\ slot[k].last_gen \in 0 .. MaxGen
  /\ lock \in [Slots -> BOOLEAN]
  /\ \A p \in Pids :
       proc[p].st \in {"free", "starting", "open", "listening", "zombie",
                       "gone"}

(* ====================================================================== *)
(*                               Properties                               *)
(* ====================================================================== *)

\* The request being answered is a start / a stop of a configured slot.
StartDone == h.pc = "done" /\ h.op \in StartOps /\ h.key \in Slots
StopDone == h.pc = "done" /\ h.op \in StopOps /\ h.key \in Slots

\* C1: whenever a slot's lock is free, running implies pid and devnode are
\* both set, and not running implies pid and devnode are both empty.
C1_SlotInvariant ==
  \A k \in Slots :
    ~lock[k] =>
      /\ slot[k].running => (slot[k].pid # NoPid /\ slot[k].devnode # None)
      /\ ~slot[k].running => (slot[k].pid = NoPid /\ slot[k].devnode = None)

\* C2: no step ever decreases a slot's last_gen; a step changes it by at
\* most one, and only a start or stop of that very slot does; and when a
\* start or stop of a configured slot returns (success, failure or no-op)
\* the slot's last_gen is exactly one more than the request found it.
C2_GenStep ==
  /\ \A k \in Slots :
       /\ slot'[k].last_gen \in {slot[k].last_gen, slot[k].last_gen + 1}
       /\ slot'[k].last_gen # slot[k].last_gen =>
            (h.key = k /\ h.op \in StartOps \cup StopOps)
  /\ (h.pc # "done" /\ h'.pc = "done" /\ h'.key \in Slots
      /\ h'.op \in StartOps \cup StopOps) =>
       slot'[h'.key].last_gen = h'.pre.last_gen + 1
C2_GenMonotonic == [][C2_GenStep]_vars

\* C2 witness: a start that was a no-op, a start that failed and a stop
\* have each raised last_gen: here a no-op start returns with last_gen 2.
C2_Witness ==
  /\ StartDone /\ h.success /\ ~h.restarted
  /\ slot[h.key].last_gen = 2 /\ h.pre.last_gen = 1

\* C3: when a start(k, d) holding the slot's lock examines a slot that is
\* running on d and whose child is alive and listening, that step returns
\* success with restarted=false; the call has spawned no child and sent no
\* signal, no process changes, and the slot is left as the call found it
\* but for last_gen, which both calls have incremented.
C3_IdempotentStep ==
  (/\ h.pc = "locked" /\ h.op \in StartOps /\ h' # h
   /\ slot[h.key].running /\ slot[h.key].pid # NoPid
   /\ slot[h.key].devnode = h.dev
   /\ proc[slot[h.key].pid].st = "listening")
  => /\ h'.pc = "done" /\ h'.success /\ ~h'.restarted
     /\ ~h'.spawned /\ ~h'.signalled
     /\ proc' = proc
     /\ slot' = [slot EXCEPT ![h.key].last_gen = @ + 1]
     /\ slot'[h.key] = [h.pre EXCEPT !.last_gen = @ + 1]
     /\ slot'[h.key].last_gen >= 2
     /\ ~lock'[h.key]
C3_Idempotent == [][C3_IdempotentStep]_vars

\* C3 witness: the second start(k, d) returns restarted=false while the
\* child of the first is listening.
C3_Witness ==
  /\ StartDone /\ h.op = "start" /\ h.success /\ ~h.restarted
  /\ h.pre.running /\ h.pre.devnode = h.dev
  /\ proc[h.pre.pid].st = "listening"

\* C4: when stop(k) returns for a slot that was running, the child recorded
\* for the slot is absent from the OS process table.
C4_ProcessCleanup ==
  (StopDone /\ h.pre.running /\ h.pre.pid # NoPid)
  => proc[h.pre.pid].st \notin {"starting", "open", "listening", "zombie"}

\* C5: no two children listen on the same TCP port, and the supervisor never
\* has a live child it spawned for a port while another live child that it
\* spawned for the same port exists.
C5_PortUniqueness ==
  \A p, q \in Pids :
    (p # q /\ Running(p) /\ Running(q)) => proc[p].port # proc[q].port

\* C6: no two live proxy children hold the same devnode open.
C6_DevnodeExclusive ==
  \A p, q \in Pids :
    (/\ p # q
     /\ proc[p].st \in {"open", "listening"}
     /\ proc[q].st \in {"open", "listening"})
    => proc[p].dev # proc[q].dev

\* C7: every step that changes a field of a slot is taken while that slot's
\* lock is held.
C7_MutationStep == \A k \in Slots : slot'[k] # slot[k] => lock[k]
C7_MutationUnderLock == [][C7_MutationStep]_vars

\* C8: while a transition of slot a is in flight (a's lock is held), a
\* request for another slot b can be dispatched.
C8_CrossSlotParallel ==
  \A a, b \in Slots :
    (a # b /\ lock[a] /\ slot[b].last_gen < MaxGen)
    => ENABLED Dispatch("stop", b, None)

\* C9: when a start of a configured slot returns success=false, last_gen
\* has been incremented, the slot is stopped with pid and devnode empty,
\* last_error is the returned error, no child spawned by the call is still
\* running, and for device_not_ready none was spawned.
C9_FailedStartClean ==
  (StartDone /\ ~h.success)
  => /\ slot[h.key].last_gen = h.pre.last_gen + 1
     /\ ~slot[h.key].running
     /\ slot[h.key].pid = NoPid /\ slot[h.key].devnode = None
     /\ slot[h.key].last_error = h.error /\ h.error # None
     /\ h.child # NoPid => ~Running(h.child)
     /\ h.spawned <=> h.child # NoPid
     /\ h.error \in {"device_not_ready", "no_proxy_executable"}
          => ~h.spawned
     /\ h.error = "port_not_listening" => (h.spawned /\ h.signalled)
     /\ ~lock[h.key]

\* C9 witness: a start of a slot that was running on another devnode fails
\* with port_not_listening after its child was forcibly stopped.
C9_Witness ==
  /\ StartDone /\ ~h.success /\ h.error = "port_not_listening"
  /\ h.spawned /\ h.signalled /\ h.pre.running /\ h.pre.devnode # h.dev

\* C10: a start, stop or hotplug request naming an unconfigured slot_key is
\* answered at once with the unknown_slot error and HTTP 400, and changes
\* no slot, lock or process.
C10_UnknownStep ==
  (h.pc = "idle" /\ h'.pc # "idle" /\ h'.key = UnknownKey
   /\ h'.op \in StartOps \cup StopOps)
  => /\ h'.pc = "done" /\ ~h'.success /\ h'.error = "unknown_slot"
     /\ h'.http = 400
     /\ ~h'.spawned /\ ~h'.signalled
     /\ slot' = slot /\ lock' = lock /\ proc' = proc
C10_UnknownSlot == [][C10_UnknownStep]_vars

\* C11: a hotplug request is answered as the start or stop it stands for:
\* action add with the result and the success/failure status /api/start
\* gives, action remove with those /api/stop gives; any other action gets a
\* validation error (400) and leaves the slot as it was.
C11_HotplugEquivalence ==
  h.pc = "done" =>
    /\ h.op = "hp_add" => h.http = HttpStatus("start", h.success)
    /\ h.op = "hp_remove" => h.http = HttpStatus("stop", h.success)
    /\ h.op = "hp_other" =>
         /\ h.http = 400 /\ ~h.success /\ ~h.spawned /\ ~h.signalled
         /\ h.key \in Slots => slot[h.key] = h.pre

\* C12: a get_devices pass that comes to a slot recorded running whose
\* child has died clears running, pid and devnode and sets last_error to
\* "Process died"; it changes no field of any other slot, nor of a slot
\* whose child is alive, and never last_gen.
ChildDied(s) == s.running /\ s.pid # NoPid /\ ~Running(s.pid)
C12_ReapStep ==
  (h.pc = "gd" /\ h' # h)
  => \A k \in Slots :
       slot'[k] = IF k = SlotOrder[h.i] /\ ChildDied(slot[k])
                  THEN [slot[k] EXCEPT !.running = FALSE, !.pid = NoPid,
                                       !.devnode = None,
                                       !.last_error = "process_died"]
                  ELSE slot[k]
C12_HealthReap == [][C12_ReapStep]_vars

RECURSIVE AppBytes(_)
AppBytes(toks) ==
  IF toks = <<>> THEN <<>>
  ELSE (IF Head(toks).kind = "data" THEN Head(toks).body ELSE <<>>)
       \o AppBytes(Tail(toks))

\* The whole client stream as bytes
RECURSIVE WireAll(_)
WireAll(toks) ==
  IF toks = <<>> THEN <<>> ELSE Wire(Head(toks)) \o WireAll(Tail(toks))

Kinds(toks) == {toks[j].kind : j \in 1 .. Len(toks)}
OneRead == px.phase = "done" /\ px.n = 1

\* C14: when the client sends a byte string P with every 0xFF doubled and
\* the proxy receives it in one read, exactly P is written to the serial
\* port.
C14_CodecRoundtrip ==
  (OneRead /\ Kinds(px.toks) = {"data"}
   /\ WireAll(px.toks) = Escape(AppBytes(px.toks)))
  => px.wr = AppBytes(px.toks)

\* C14 witness: P = 41 FF F0, sent as 41 FF FF F0, has been read.
C14_Witness ==
  /\ OneRead /\ Kinds(px.toks) = {"data"}
  /\ AppBytes(px.toks) = <<65, IAC, SE>> /\ px.wr = <<65, IAC, SE>>

\* C15: of a stream of application bytes and COM-PORT subnegotiations that
\* arrives in one read, the serial port gets the application bytes, each
\* once and in order, and no byte of a subnegotiation.
C15_FramingIsolation ==
  (OneRead /\ Kinds(px.toks) \subseteq {"data", "sub"})
  => px.wr = AppBytes(px.toks)

\* C16: a stream received in two reads gives the same serial data, the
\* same subnegotiation calls, the same replies and the same settings as
\* the stream received in one read.
C16_PartialFrameResumption ==
  px.phase = "done"
  => LET w == HandleRfc2217(SerialDefaults, WireAll(px.toks))
     IN  /\ px.wr = w.out /\ px.evs = w.evs
         /\ px.sent = w.sent /\ px.ser = w.ser

\* C17: a subnegotiation of an option other than COM-PORT is dropped up to
\* and including its IAC SE: none of its bytes reaches the serial port, no
\* reply is sent and no setting changes.
C17_ForeignSubnegotiation ==
  (OneRead /\ Kinds(px.toks) \subseteq {"data", "osub"})
  => /\ px.wr = AppBytes(px.toks)
     /\ px.sent = <<>> /\ px.evs = <<>> /\ px.ser = SerialDefaults

(* ---------------- properties of the subnegotiation handler ------------ *)

\* Every 0xFF of s is one of a pair: s is the escaped form of some string.
RECURSIVE IsEscaped(_)
IsEscaped(s) ==
  IF s = <<>> THEN TRUE
  ELSE IF Head(s) = IAC
  THEN Len(s) >= 2 /\ s[2] = IAC /\ IsEscaped(Tail(Tail(s)))
  ELSE IsEscaped(Tail(s))

\* The bytes of a message between its four-byte header and its IAC SE
Body(m) == SubSeq(m, 5, Len(m) - 2)

\* A handler call has just been made; its arguments
Called == px.n > 0
Called1 == px'.n = px.n + 1
SubcmdOf(x) == x.evs[1].subcmd
DataOf(x) == x.evs[1].data

\* C18: every reply to a COM-PORT subnegotiation with subcommand c is
\* IAC SB 44 (c + 100), a payload in which every 0xFF is doubled, IAC SE.
C18_ReplyFraming ==
  Called
  => \A j \in 1 .. Len(px.sent) :
       LET m == px.sent[j]
       IN  /\ Len(m) >= 6
           /\ SubSeq(m, 1, 4)
                = <<IAC, SB, COM_PORT_OPTION, SubcmdOf(px) + 100>>
           /\ SubSeq(m, Len(m) - 1, Len(m)) = <<IAC, SE>>
           /\ IsEscaped(Body(m))

\* The reply carries the payload p, plain or escaped.
Replied(x, p) ==
  /\ Len(x.sent) = 1
  /\ SubSeq(x.sent[1], 1, 4)
       = <<IAC, SB, COM_PORT_OPTION, SubcmdOf(x) + 100>>
  /\ Body(x.sent[1]) \in {p, Escape(p)}

\* C19: a line-setting request with a value in range makes the setting the
\* mapped value and is answered with the value itself; SET_BAUDRATE 0 and
\* a SET_DATASIZE out of 5..8 change nothing and are answered with the
\* setting in force.
C19_SettingStep ==
  Called1 =>
    LET c == SubcmdOf(px')
        d == DataOf(px')
        v == d[1]
    IN  /\ (c = SET_BAUDRATE /\ Len(d) = 4) =>
              LET b == FromBytes4(d)
              IN  IF b > 0
                  THEN px'.ser.baudrate = b /\ Replied(px', d)
                  ELSE /\ px'.ser = px.ser
                       /\ Replied(px', ToBytes4(px.ser.baudrate))
        /\ (c = SET_DATASIZE /\ Len(d) = 1) =>
              IF v \in 5 .. 8
              THEN px'.ser.bytesize = v /\ Replied(px', <<v>>)
              ELSE px'.ser = px.ser /\ Replied(px', <<px.ser.bytesize>>)
        /\ (c = SET_PARITY /\ Len(d) = 1 /\ v \in 1 .. 5) =>
              /\ px'.ser.parity = <<"N", "O", "E", "M", "S">>[v]
              /\ Replied(px', <<v>>)
        /\ (c = SET_STOPSIZE /\ Len(d) = 1 /\ v \in 1 .. 3) =>
              /\ px'.ser.stopbits = <<10, 20, 15>>[v]
              /\ Replied(px', <<v>>)
C19_LineSettingRoundTrip == [][C19_SettingStep]_vars

\* C20: SET_CONTROL 8 sets DTR, 9 clears it, 11 sets RTS, 12 clears it, and
\* nothing else of the port changes; any other control byte changes
\* nothing; the reply is always IAC SB 44 105, the control byte, IAC SE.
C20_ControlStep ==
  (Called1 /\ SubcmdOf(px') = SET_CONTROL /\ Len(DataOf(px')) >= 1)
  => LET v == DataOf(px')[1]
     IN  /\ px'.ser = [px.ser EXCEPT
                         !.dtr = IF v = 8 THEN TRUE
                                 ELSE IF v = 9 THEN FALSE ELSE @,
                         !.rts = IF v = 11 THEN TRUE
                                 ELSE IF v = 12 THEN FALSE ELSE @]
         /\ px'.sent = << <<255, 250, 44, 105, v, 255, 240>> >>
C20_SetControl == [][C20_ControlStep]_vars

\* C20 witness: after RTS was cleared, FF FA 2C 05 08 FF F0 has been
\* handled: DTR is on, RTS still off, the reply FF FA 2C 69 08 FF F0.
C20_Witness ==
  /\ px.n = 2 /\ SubcmdOf(px) = SET_CONTROL /\ DataOf(px) = <<8>>
  /\ px.ser.dtr /\ ~px.ser.rts
  /\ px.sent = << <<255, 250, 44, 105, 8, 255, 240>> >>

\* The payload is too short for the subcommand it comes with.
Malformed(c, d) ==
  \/ c = SET_BAUDRATE /\ Len(d) < 4
  \/ c \in {SET_DATASIZE, SET_PARITY, SET_STOPSIZE, SET_CONTROL} /\ d = <<>>

\* C21: a COM-PORT subnegotiation whose payload is too short for its
\* subcommand is skipped: no setting changes, no reply goes to the client
\* and nothing is written to the serial port.
C21_MalformedStep ==
  (Called1 /\ Malformed(SubcmdOf(px'), DataOf(px')))
  => /\ px'.ser = px.ser
     /\ px'.sent = <<>>
     /\ px'.wr = px.wr
C21_MalformedSkipped == [][C21_MalformedStep]_vars

\* C22: in a read, the reply to each COM-PORT subnegotiation is sent once
\* the subnegotiation has been consumed through its IAC SE and before any
\* later byte of the read is taken up, and the replies go out in the order
\* of the subnegotiations: the codec's steps follow the client's frames
\* one for one.
C22_ReplyOrdering ==
  (OneRead /\ Kinds(px.toks) \subseteq {"data", "sub"})
  => [j \in 1 .. Len(px.log) |-> px.log[j].k]
       = [j \in 1 .. Len(px.toks) |->
            IF px.toks[j].kind = "data" THEN "d" ELSE "r"]

(* ---------------------------------------------------------------------- *)
(* C23  Single session with pre-emption.  At every point of the proxy's   *)
(*      run at most one client socket is open.  A step that accepts a     *)
(*      connection while a client is connected closes that client's       *)
(*      socket, logs "Previous client disconnected" and makes the new     *)
(*      connection the client; every forwarding of serial data goes to    *)
(*      the client of that moment, so after the accept to the new         *)
(*      connection and never to the old one.                              *)
(* ---------------------------------------------------------------------- *)
OpenSocks(pr) == {c \in Conns : pr.sock[c] = "open"}

Accepted(c) == proxy.sock[c] = "pending" /\ proxy'.sock[c] = "open"

C23_Step ==
  /\ Cardinality(OpenSocks(proxy')) <= 1
  /\ \A c \in Conns :
       Accepted(c) =>
         /\ proxy'.client = c
         /\ proxy.client # None =>
              /\ proxy'.sock[proxy.client] = "closed"
              /\ proxy'.logs[1] = "Previous client disconnected"
  /\ proxy'.fwd # proxy.fwd =>
       /\ proxy'.fwd.to = proxy'.client
       /\ proxy'.fwd.sent # <<>> => proxy'.fwd.to \notin {None, proxy'.pre}

C23_SingleSession == [][C23_Step]_vars

\* B was accepted while A was connected, and serial data was then sent to B
C23_Witness ==
  /\ proxy.pre = "A" /\ proxy.client = "B" /\ proxy.sock["A"] = "closed"
  /\ proxy.fwd.to = "B" /\ proxy.fwd.sent # <<>>

(* ---------------------------------------------------------------------- *)
(* C24  A failed send of serial data to the client closes the Session:    *)
(*      after the step the client's socket is closed and the proxy holds  *)
(*      no client; the proxy stays in its loop with the listener open.    *)
(* ---------------------------------------------------------------------- *)
SendFailed ==
  /\ proxy'.fwd # proxy.fwd
  /\ proxy'.fwd.to # None /\ proxy'.fwd.sent = <<>>

C24_Step ==
  SendFailed =>
    /\ proxy'.client = None
    /\ proxy'.sock[proxy'.fwd.to] = "closed"
    /\ proxy'.pc = "loop" /\ proxy'.running /\ proxy'.server = "open"

C24_FailedSendClosesSession == [][C24_Step]_vars

(* ---------------------------------------------------------------------- *)
(* C25  The proxy survives every non-fatal I/O error: once the serial     *)
(*      port is open and the listener started, the main loop is left      *)
(*      only after a signal was delivered.                                *)
(* ---------------------------------------------------------------------- *)
C25_SurvivesIoErrors == proxy.pc # "loop" => proxy.signalled

(* ---------------------------------------------------------------------- *)
(* C26  Graceful shutdown.  No closed resource is ever used, and a        *)
(*      signal leads to the process having terminated with the client     *)
(*      socket, the listener, the serial port and the logger closed.      *)
(* ---------------------------------------------------------------------- *)
AllClosed(pr) ==
  /\ pr.server = "closed" /\ pr.serial = "closed" /\ pr.logfile = "closed"
  /\ OpenSocks(pr) = {}

C26_GracefulShutdown ==
  /\ [](~proxy.misuse)
  /\ proxy.signalled ~> (proxy.pc = "exited" /\ AllClosed(proxy))

(* ---------------------------------------------------------------------- *)
(* C29  The supervisor's listening probe, a TCP connect to the proxy's    *)
(*      port, does not make the proxy close the Session of a connected    *)
(*      client: no step in which the probe's connection becomes the       *)
(*      proxy's client closes the socket of a client that was connected.  *)
(* ---------------------------------------------------------------------- *)
C29_Step ==
  (Accepted(Probe) /\ proxy.client \in Clients) =>
     proxy'.sock[proxy.client] = proxy.sock[proxy.client]

C29_ProbeKeepsSession == [][C29_Step]_vars

(* ---------------------------------------------------------------------- *)
(* C30  Serial-to-client transparency: the bytes sent to the client for   *)
(*      serial data D are D with every 0xFF doubled, so that they decode  *)
(*      under IAC unescaping to exactly D.                                *)
(* ---------------------------------------------------------------------- *)
C30_Step ==
  (proxy'.fwd # proxy.fwd /\ proxy'.fwd.sent # <<>>) =>
     proxy'.fwd.sent = Escape(proxy'.fwd.data)

C30_SerialToClientTransparency == [][C30_Step]_vars

(* ---------------------------------------------------------------------- *)
(* C27  Idempotent stop.  A stop of a configured slot returns success and *)
(*      leaves the slot not running with pid and devnode empty; on a slot *)
(*      that was already stopped it signals no process and changes        *)
(*      nothing of the slot but last_gen, which it increments.            *)
(* ---------------------------------------------------------------------- *)
C27_IdempotentStop ==
  (StopDone /\ h.op = "stop")
  => /\ h.success /\ h.http = 200
     /\ ~slot[h.key].running
     /\ slot[h.key].pid = NoPid /\ slot[h.key].devnode = None
     /\ ~h.pre.running =>
          /\ ~h.signalled
          /\ slot[h.key] = BumpGen(h.pre)

(* ---------------------------------------------------------------------- *)
(* C28  BLE controller thread-safety.  In every state that the calls of   *)
(*      scan, connect, disconnect and write by two threads and the        *)
(*      disconnect callback can reach: _state is "connected" exactly when *)
(*      _client is set; _state is never "idle" with a client held; and    *)
(*      every client whose link is up is _client or is the local client   *)
(*      of a call still in progress.                                      *)
(* ---------------------------------------------------------------------- *)
BleHeld(c) == c = ble.client \/ \E t \in BleThreads : ble.th[t].c = c

C28_BleConsistent ==
  /\ ble.state = "connected" <=> ble.client # 0
  /\ ~(ble.state = "idle" /\ ble.client # 0)
  /\ \A c \in BleIds : ble.link[c] = "up" => BleHeld(c)

(* ---------------------------------------------------------------------- *)
(* C31  Control and data take effect in stream order.  The data bytes of  *)
(*      one client read are written to the serial port under the settings *)
(*      the port had at their place in the stream: bytes in front of a    *)
(*      subnegotiation that changes a setting go out before the change,   *)
(*      bytes behind it after the change.  The write of a read happens    *)
(*      when the parse has returned, under the settings px.ser.           *)
(* ---------------------------------------------------------------------- *)
C31_StreamOrder ==
  (px.n >= 1 /\ Kinds(px.toks) \subseteq {"data", "sub"})
  => \A j \in 1 .. Len(px.log) :
       px.log[j].k = "d" => px.log[j].ser = px.ser

(* ---------------------------------------------------------------------- *)
(* C32  At the start of every iteration of the main loop the proxy's      *)
(*      client reference is empty or an open socket, so that select can   *)
(*      be called and the loop serves the listener and the serial port;   *)
(*      this holds also after an accept that failed once the previous     *)
(*      client had been closed.                                           *)
(* ---------------------------------------------------------------------- *)
C32_ClientRefOpen == proxy.pc = "loop" => SelectOk(proxy)

(* ---------------------------------------------------------------------- *)
(* C33  A successful start commits the real listener: in the step in      *)
(*      which a start returns success with a pid, the process of that     *)
(*      pid is running and is the process that listens on the slot's      *)
(*      tcp_port; the probe is not satisfied by another process.          *)
(* ---------------------------------------------------------------------- *)
C33_Step ==
  (h.pc # "done" /\ h'.pc = "done" /\ h'.op \in StartOps
   /\ h'.key \in Slots /\ h'.success /\ h'.restarted)
  => /\ h'.pid # NoPid /\ h'.pid = slot'[h'.key].pid
     /\ proc'[h'.pid].st = "listening"
     /\ proc'[h'.pid].port = tcp_port[h'.key]

C33_RealListener == [][C33_Step]_vars

=============================================================================
